---- MODULE Spec2Model ----
(***************************************************************************)
(* Model of gossip/integration/integration.go: the demo bootstrap of a     *)
(* gossip component (newConfig, newComm, NewGossipComponent) and the two   *)
(* naive crypto services (naiveCryptoServiceImpl, naiveCryptoService).     *)
(*                                                                         *)
(* Spec       : one call of NewGossipComponent, step by step.              *)
(* SpecCrypto : callers invoking the methods of the two crypto services.   *)
(***************************************************************************)
EXTENDS Integers, Sequences, FiniteSets, TLC

VARIABLES
    pc,            \* position of the NewGossipComponent call
    endpoint,      \* argument endpoint (a string, as a sequence of characters)
    bootPeers,     \* argument bootPeers ...string
    conf,          \* local conf of NewGossipComponent (*gossip.Config)
    commInst,      \* local comm of NewGossipComponent (comm.Comm)
    gossipInst,    \* the value built by gossip.NewGossipService
    ret,           \* what NewGossipComponent returned to its caller
    panicVal,      \* the value the call panicked with
    trace,         \* the library/collaborator calls made so far, in order
    allocs,        \* the crypto service objects constructed so far, in order
    serverTouched, \* the *grpc.Server was handed to a collaborator
    peerIdentity,  \* SpecCrypto: an identity in flight
    signature,     \* SpecCrypto: a byte slice in flight
    message,       \* SpecCrypto: a byte slice in flight
    frames,        \* SpecCrypto: per caller, the call it has just completed
    heap           \* SpecCrypto: the struct value behind each service pointer

bootVars   == <<pc, endpoint, bootPeers, conf, commInst, gossipInst, ret,
                panicVal, trace, allocs, serverTouched>>
cryptoVars == <<peerIdentity, signature, message, frames, heap>>
vars       == <<bootVars, cryptoVars>>

----------------------------------------------------------------------------
(* Bounds *)

MaxEndpointLen == 4      \* longest endpoint string
MaxPeers       == 2      \* longest bootPeers list
MaxBytesLen    == 1      \* longest byte slice
NumCallers     == 2      \* concurrent callers of the crypto services

Chars       == {"0", "7", ":", "a", "-"}
Bytes       == {0, 1}
PeerStrings == { <<"b", "a", "d">>, <<"a", ":", "7">> }
AliveMessages == {"alive1", "alive2"}
SignedBlocks  == {"block1"}
Callers     == 1 .. NumCallers

RECURSIVE SeqsUpTo(_, _)
SeqsUpTo(S, n) ==
    IF n = 0 THEN { <<>> }
    ELSE LET shorter == SeqsUpTo(S, n - 1)
         IN  shorter \cup { Append(s, x) : s \in shorter, x \in S }

Endpoints == SeqsUpTo(Chars, MaxEndpointLen)
PeerLists == SeqsUpTo(PeerStrings, MaxPeers)

----------------------------------------------------------------------------
(* Go values *)

\* a value that is not there (nil pointer, unset local)
NoValue == [none |-> TRUE]

\* error values; a nil error has isNil = TRUE
NilError == [isNil |-> TRUE, text |-> "", args |-> <<>>]
Errorf(text, args) == [isNil |-> FALSE, text |-> text, args |-> args]

\* a []byte: the nil slice and the empty slice are different values with
\* the same contents
NilSlice    == [isNil |-> TRUE,  data |-> <<>>]
Slice(data) == [isNil |-> FALSE, data |-> data]
Slices      == {NilSlice} \cup { Slice(d) : d \in SeqsUpTo(Bytes, MaxBytesLen) }

\* a comparison that looks at the lengths only
bytesEqualLenOnly(a, b) == Len(a.data) = Len(b.data)

\* bytes.Equal: same length and same bytes; a nil argument is an empty slice
bytesEqual(a, b) == a.data = b.data

\* fmt's %v of a []byte prints the bytes; nil and empty both print as []
FormatV(b) == b.data

\* []byte(s), api.PeerIdentityType(s): a non-nil slice holding the bytes of s
BytesOfString(s) == Slice(s)

----------------------------------------------------------------------------
(* strings.Split(s, ":") and strconv.ParseInt(s, 10, 64) *)

HasColon(s) == \E i \in 1 .. Len(s) : s[i] = ":"
FirstColon(s) == CHOOSE i \in 1 .. Len(s) :
                    s[i] = ":" /\ \A j \in 1 .. (i - 1) : s[j] # ":"

RECURSIVE Split(_)
Split(s) ==
    IF ~HasColon(s) THEN << s >>
    ELSE LET i == FirstColon(s)
         IN  << SubSeq(s, 1, i - 1) >> \o Split(SubSeq(s, i + 1, Len(s)))

DigitVal == ("0" :> 0) @@ ("1" :> 1) @@ ("2" :> 2) @@ ("3" :> 3) @@ ("4" :> 4)
         @@ ("5" :> 5) @@ ("6" :> 6) @@ ("7" :> 7) @@ ("8" :> 8) @@ ("9" :> 9)

ErrSyntax == Errorf("strconv.ParseInt: invalid syntax", <<>>)

\* the digit loop of ParseUint, most significant digit first.  The range
\* error of a 64 bit parse needs 19 digits and is out of reach of the
\* endpoint strings considered here.
RECURSIVE ParseUintLoop(_, _)
ParseUintLoop(s, n) ==
    IF s = <<>> THEN [n |-> n, err |-> NilError]
    ELSE IF Head(s) \notin DOMAIN DigitVal THEN [n |-> 0, err |-> ErrSyntax]
    ELSE ParseUintLoop(Tail(s), n * 10 + DigitVal[Head(s)])

ParseInt(s) ==
    IF s = <<>> THEN [n |-> 0, err |-> ErrSyntax]
    ELSE LET neg  == Head(s) = "-"
             body == IF Head(s) \in {"+", "-"} THEN Tail(s) ELSE s
         IN  IF body = <<>> THEN [n |-> 0, err |-> ErrSyntax]
             ELSE LET u == ParseUintLoop(body, 0)
                  IN  IF ~u.err.isNil THEN u
                      ELSE [n |-> IF neg THEN 0 - u.n ELSE u.n, err |-> NilError]

ErrIndex == Errorf("runtime error: index out of range", <<>>)

\* line 37: strconv.ParseInt(strings.Split(selfEndpoint, ":")[1], 10, 64).
\* Indexing a one-element result panics before ParseInt is called.
parsePort(selfEndpoint) ==
    LET segs == Split(selfEndpoint)
    IN  IF Len(segs) < 2 THEN [n |-> 0, err |-> ErrIndex, parsed |-> FALSE]
        ELSE LET r == ParseInt(segs[2])
             IN  [n |-> r.n, err |-> r.err, parsed |-> TRUE]

----------------------------------------------------------------------------
(* The crypto services.  Both struct types have no fields; a method gets   *)
(* the struct value behind its receiver and yields that value as the call  *)
(* leaves it, together with what it returns.                               *)

EmptyStruct == << >>

Variants == {"naiveCryptoServiceImpl", "naiveCryptoService"}

Result(cs, r) == [cs |-> cs, ret |-> r]

\* ---- naiveCryptoServiceImpl ----

naiveCryptoServiceImpl_ValidateAliveMsg(cs, am) == Result(cs, TRUE)

naiveCryptoServiceImpl_Verify(cs, vkID, sig, msg) ==
    IF ~bytesEqual(sig, msg)
    THEN Result(cs, Errorf("Wrong signature", <<>>))
    ELSE Result(cs, NilError)

naiveCryptoServiceImpl_SignMessage(cs, msg) == Result(cs, msg)

naiveCryptoServiceImpl_IsEnabled(cs) == Result(cs, FALSE)

\* a Sign that keeps the last message in the receiver and answers from it
SignCached(cs, msg) ==
    Result(<< msg >>, << (IF cs = EmptyStruct THEN msg ELSE cs[1]), NilError >>)

naiveCryptoServiceImpl_Sign(cs, msg) == Result(cs, << msg, NilError >>)

\* ---- naiveCryptoService ----

naiveCryptoService_Verify(cs, identity, sig, msg) ==
    LET equal == bytesEqual(sig, msg)
    IN  IF ~equal
        THEN Result(cs, Errorf("Wrong signature:%v, %v",
                               << FormatV(sig), FormatV(msg) >>))
        ELSE Result(cs, NilError)

naiveCryptoService_ValidateAliveMsg(cs, am) == Result(cs, TRUE)

naiveCryptoService_SignMessage(cs, am) == Result(cs, am)

naiveCryptoService_IsEnabled(cs) == Result(cs, TRUE)

naiveCryptoService_ValidateIdentity(cs, identity) == Result(cs, NilError)

naiveCryptoService_GetPKIidOfCert(cs, identity) == Result(cs, identity)

naiveCryptoService_VerifyBlock(cs, signedBlock) == Result(cs, NilError)

\* a Sign that answers with an empty signature
SignEmpty(cs, msg) == Result(cs, << Slice(<< >>), NilError >>)

naiveCryptoService_Sign(cs, msg) == Result(cs, << msg, NilError >>)

\* the method sets of the two types
Methods(variant) ==
    IF variant = "naiveCryptoServiceImpl"
    THEN {"ValidateAliveMsg", "Verify", "SignMessage", "IsEnabled", "Sign"}
    ELSE {"Verify", "ValidateAliveMsg", "SignMessage", "IsEnabled",
          "ValidateIdentity", "GetPKIidOfCert", "VerifyBlock", "Sign"}

\* dynamic dispatch of op on a receiver of the given type
Invoke(variant, op, cs, args) ==
    IF variant = "naiveCryptoServiceImpl" THEN
        CASE op = "ValidateAliveMsg" -> naiveCryptoServiceImpl_ValidateAliveMsg(cs, args[1])
          [] op = "Verify"      -> naiveCryptoServiceImpl_Verify(cs, args[1], args[2], args[3])
          [] op = "SignMessage" -> naiveCryptoServiceImpl_SignMessage(cs, args[1])
          [] op = "IsEnabled"   -> naiveCryptoServiceImpl_IsEnabled(cs)
          [] op = "Sign"        -> naiveCryptoServiceImpl_Sign(cs, args[1])
    ELSE
        CASE op = "Verify"      -> naiveCryptoService_Verify(cs, args[1], args[2], args[3])
          [] op = "ValidateAliveMsg" -> naiveCryptoService_ValidateAliveMsg(cs, args[1])
          [] op = "SignMessage" -> naiveCryptoService_SignMessage(cs, args[1])
          [] op = "IsEnabled"   -> naiveCryptoService_IsEnabled(cs)
          [] op = "ValidateIdentity" -> naiveCryptoService_ValidateIdentity(cs, args[1])
          [] op = "GetPKIidOfCert"   -> naiveCryptoService_GetPKIidOfCert(cs, args[1])
          [] op = "VerifyBlock" -> naiveCryptoService_VerifyBlock(cs, args[1])
          [] op = "Sign"        -> naiveCryptoService_Sign(cs, args[1])

\* A pointer to a crypto service.  Both struct types have size zero, and
\* pointers to distinct zero-size variables may or may not be equal: an
\* allocation yields either the shared zero-size address or a fresh one.
ZeroBase == << "zerobase" >>
FreshAddr(n) == << "object", n >>

Pointer(variant, addr) == [variant |-> variant, addr |-> addr]

\* a constructor that hands out the other type
NewGossipCryptoServiceEnabled(addr) == Pointer("naiveCryptoService", addr)

\* line 96-98
NewGossipCryptoService(addr) == Pointer("naiveCryptoServiceImpl", addr)

\* line 68: &naiveCryptoService{}
NewNaiveCryptoService(addr) == Pointer("naiveCryptoService", addr)

\* the addresses the n-th allocation of the call may get
Addrs(n) == {ZeroBase, FreshAddr(n)}

----------------------------------------------------------------------------
(* NewGossipComponent, statement by statement *)

Call(name, ok) == [call |-> name, ok |-> ok]

\* a config whose peer list keeps only the entries that look like host:port
gossipConfigValidated(port, selfEndpoint, peers) ==
    [ BindPort                   |-> port,
      BootstrapPeers             |-> SelectSeq(peers, HasColon),
      ID                         |-> selfEndpoint,
      MaxMessageCountToStore     |-> 100,
      MaxPropagationBurstLatency |-> 50,
      MaxPropagationBurstSize    |-> 3,
      PropagateIterations        |-> 1,
      PropagatePeerNum           |-> 3,
      PullInterval               |-> 5000,
      PullPeerNum                |-> 3,
      SelfEndpoint               |-> selfEndpoint ]

\* lines 41-53: the gossip.Config literal (durations in milliseconds)
gossipConfig(port, selfEndpoint, peers) ==
    [ BindPort                   |-> port,
      BootstrapPeers             |-> peers,
      ID                         |-> selfEndpoint,
      MaxMessageCountToStore     |-> 100,
      MaxPropagationBurstLatency |-> 50,
      MaxPropagationBurstSize    |-> 3,
      PropagateIterations        |-> 1,
      PropagatePeerNum           |-> 3,
      PullInterval               |-> 5000,
      PullPeerNum                |-> 3,
      SelfEndpoint               |-> selfEndpoint ]

\* a newConfig that drops the error of ParseInt
newConfigIgnoreErr ==
    /\ pc = "newConfig"
    /\ LET p == parsePort(endpoint)
       IN  /\ trace' = IF p.parsed
                       THEN Append(trace, Call("strconv.ParseInt", p.err.isNil))
                       ELSE trace
           /\ IF ~p.parsed
              THEN /\ pc' = "panicked"
                   /\ panicVal' = p.err
                   /\ conf' = conf
              ELSE /\ pc' = "newComm"
                   /\ conf' = gossipConfig(p.n, endpoint, bootPeers)
                   /\ panicVal' = panicVal
    /\ UNCHANGED <<endpoint, bootPeers, commInst, gossipInst, ret, allocs,
                   serverTouched, cryptoVars>>

\* line 66 and lines 36-54: conf := newConfig(endpoint, bootPeers...)
newConfig ==
    /\ pc = "newConfig"
    /\ LET p == parsePort(endpoint)
       IN  /\ trace' = IF p.parsed
                       THEN Append(trace, Call("strconv.ParseInt", p.err.isNil))
                       ELSE trace
           /\ IF ~p.err.isNil
              THEN /\ pc' = "panicked"
                   /\ panicVal' = p.err
                   /\ conf' = conf
              ELSE /\ pc' = "newComm"
                   /\ conf' = gossipConfig(p.n, endpoint, bootPeers)
                   /\ panicVal' = panicVal
    /\ UNCHANGED <<endpoint, bootPeers, commInst, gossipInst, ret, allocs,
                   serverTouched, cryptoVars>>

ErrComm == Errorf("comm.NewCommInstance failed", <<>>)

\* what comm.NewCommInstance hands back when it succeeds: a handle that
\* holds the arguments it was given
CommHandle(sec, selfIdentity, dialOpts) ==
    [secProvider |-> sec, selfIdentity |-> selfIdentity, dialOpts |-> dialOpts]

\* a newComm that returns the handle without looking at err
newCommIgnoreErr ==
    /\ pc = "newComm"
    /\ \E addr \in Addrs(Len(allocs) + 1), err \in {NilError, ErrComm} :
          LET sec == NewGossipCryptoService(addr)
          IN  /\ allocs' = Append(allocs, sec)
              /\ trace' = Append(trace, Call("comm.NewCommInstance", err.isNil))
              /\ serverTouched' = TRUE
              /\ pc' = "NewGossipService"
              /\ commInst' = IF err.isNil
                             THEN CommHandle(sec, BytesOfString(endpoint),
                                             << "grpc.WithInsecure" >>)
                             ELSE commInst
              /\ panicVal' = panicVal
    /\ UNCHANGED <<endpoint, bootPeers, conf, gossipInst, ret, cryptoVars>>

\* line 67 and lines 56-62: comm := newComm(endpoint, s, grpc.WithInsecure()).
\* Whether comm.NewCommInstance succeeds is up to the collaborator.
newComm ==
    /\ pc = "newComm"
    /\ \E addr \in Addrs(Len(allocs) + 1), err \in {NilError, ErrComm} :
          LET sec == NewGossipCryptoService(addr)
          IN  /\ allocs' = Append(allocs, sec)
              /\ trace' = Append(trace, Call("comm.NewCommInstance", err.isNil))
              /\ serverTouched' = TRUE
              /\ IF ~err.isNil
                 THEN /\ pc' = "panicked"
                      /\ panicVal' = err
                      /\ commInst' = commInst
                 ELSE /\ pc' = "NewGossipService"
                      /\ commInst' = CommHandle(sec, BytesOfString(endpoint),
                                                << "grpc.WithInsecure" >>)
                      /\ panicVal' = panicVal
    /\ UNCHANGED <<endpoint, bootPeers, conf, gossipInst, ret, cryptoVars>>

\* what gossip.NewGossipService hands back: a service that holds the
\* arguments it was given
GossipService(c, cm, provider1, provider2, selfIdentity) ==
    [conf |-> c, comm |-> cm, provider1 |-> provider1,
     provider2 |-> provider2, selfIdentity |-> selfIdentity]

\* a line 68 that hands the provider of the comm layer to the gossip service
NewGossipServiceShared ==
    /\ pc = "NewGossipService"
    /\ LET g == GossipService(conf, commInst, commInst.secProvider,
                              commInst.secProvider, BytesOfString(conf.ID))
       IN  /\ gossipInst' = g
           /\ ret' = [gossip |-> g, comm |-> commInst]
    /\ trace' = Append(trace, Call("gossip.NewGossipService", TRUE))
    /\ pc' = "returned"
    /\ UNCHANGED <<endpoint, bootPeers, conf, commInst, panicVal, allocs,
                   serverTouched, cryptoVars>>

\* line 68: return gossip.NewGossipService(conf, comm, &naiveCryptoService{},
\*              NewGossipCryptoService(), api.PeerIdentityType(conf.ID)), comm
NewGossipService ==
    /\ pc = "NewGossipService"
    /\ \E a1 \in Addrs(Len(allocs) + 1), a2 \in Addrs(Len(allocs) + 2) :
          LET p1 == NewNaiveCryptoService(a1)
              p2 == NewGossipCryptoService(a2)
              g  == GossipService(conf, commInst, p1, p2, BytesOfString(conf.ID))
          IN  /\ allocs' = allocs \o << p1, p2 >>
              /\ gossipInst' = g
              /\ ret' = [gossip |-> g, comm |-> commInst]
    /\ trace' = Append(trace, Call("gossip.NewGossipService", TRUE))
    /\ pc' = "returned"
    /\ UNCHANGED <<endpoint, bootPeers, conf, commInst, panicVal,
                   serverTouched, cryptoVars>>

IdleFrame == [pc |-> "idle", recv |-> "", op |-> "", args |-> << >>,
              ret |-> NoValue, from |-> ""]

\* the crypto services as constructed: one object of each type
InitHeap == [v \in Variants |-> EmptyStruct]

Init ==
    /\ pc = "newConfig"
    /\ endpoint \in Endpoints
    /\ bootPeers \in PeerLists
    /\ conf = NoValue
    /\ commInst = NoValue
    /\ gossipInst = NoValue
    /\ ret = NoValue
    /\ panicVal = NilError
    /\ trace = << >>
    /\ allocs = << >>
    /\ serverTouched = FALSE
    /\ peerIdentity = NilSlice
    /\ signature = NilSlice
    /\ message = NilSlice
    /\ frames = [c \in Callers |-> IdleFrame]
    /\ heap = InitHeap

Next ==
    \/ newConfig
    \/ newComm
    \/ NewGossipService

Spec == Init /\ [][Next]_vars

----------------------------------------------------------------------------
(* Callers of the crypto services.  A method body touches no shared memory *)
(* and runs as one step; the caller then holds the result until it returns *)
(* to its own code.                                                        *)

Identities == {NilSlice, Slice(<< 1 >>)}

\* caller c invokes op on the service object of the given type
Do(c, variant, op, args, from) ==
    /\ op \in Methods(variant)
    /\ LET r == Invoke(variant, op, heap[variant], args)
       IN  /\ frames' = [frames EXCEPT ![c] =
                           [pc |-> "returned", recv |-> variant, op |-> op,
                            args |-> args, ret |-> r.ret, from |-> from]]
           /\ heap' = [heap EXCEPT ![variant] = r.cs]
    /\ UNCHANGED <<peerIdentity, signature, message, bootVars>>

Idle(c) == frames[c].pc = "idle"

IsEnabled(c) ==
    /\ Idle(c)
    /\ \E v \in Variants : Do(c, v, "IsEnabled", << >>, "")

Sign(c) ==
    /\ Idle(c)
    /\ \E v \in Variants, m \in {signature, message} :
          Do(c, v, "Sign", << m >>, "")

Verify(c) ==
    /\ Idle(c)
    /\ \E v \in Variants :
          Do(c, v, "Verify", << peerIdentity, signature, message >>, "")

\* the caller verifies the signature it has just obtained from Sign,
\* with either service
VerifySigned(c) ==
    /\ frames[c].pc = "returned"
    /\ frames[c].op = "Sign"
    /\ \E v \in Variants :
          Do(c, v, "Verify",
             << peerIdentity, frames[c].ret[1], frames[c].args[1] >>,
             frames[c].recv)

ValidateAliveMsg(c) ==
    /\ Idle(c)
    /\ \E v \in Variants, am \in AliveMessages :
          Do(c, v, "ValidateAliveMsg", << am >>, "")

SignMessage(c) ==
    /\ Idle(c)
    /\ \E v \in Variants, am \in AliveMessages :
          Do(c, v, "SignMessage", << am >>, "")

ValidateIdentity(c) ==
    /\ Idle(c)
    /\ Do(c, "naiveCryptoService", "ValidateIdentity", << peerIdentity >>, "")

GetPKIidOfCert(c) ==
    /\ Idle(c)
    /\ Do(c, "naiveCryptoService", "GetPKIidOfCert", << peerIdentity >>, "")

VerifyBlock(c) ==
    /\ Idle(c)
    /\ \E b \in SignedBlocks :
          Do(c, "naiveCryptoService", "VerifyBlock", << b >>, "")

Return(c) ==
    /\ frames[c].pc = "returned"
    /\ frames' = [frames EXCEPT ![c] = IdleFrame]
    /\ UNCHANGED <<heap, peerIdentity, signature, message, bootVars>>

InitCrypto ==
    /\ pc = "notCalled"
    /\ endpoint = << >>
    /\ bootPeers = << >>
    /\ conf = NoValue
    /\ commInst = NoValue
    /\ gossipInst = NoValue
    /\ ret = NoValue
    /\ panicVal = NilError
    /\ trace = << >>
    /\ allocs = << >>
    /\ serverTouched = FALSE
    /\ peerIdentity \in Identities
    /\ signature \in Slices
    /\ message \in Slices
    /\ frames = [c \in Callers |-> IdleFrame]
    /\ heap = InitHeap

NextCrypto ==
    \E c \in Callers :
        \/ IsEnabled(c)
        \/ Sign(c)
        \/ Verify(c)
        \/ VerifySigned(c)
        \/ ValidateAliveMsg(c)
        \/ SignMessage(c)
        \/ ValidateIdentity(c)
        \/ GetPKIidOfCert(c)
        \/ VerifyBlock(c)
        \/ Return(c)

SpecCrypto == InitCrypto /\ [][NextCrypto]_vars

----------------------------------------------------------------------------
(* Notions the properties are stated in *)

\* the host/port separator of an endpoint is its last colon
LastColon(s) == CHOOSE i \in 1 .. Len(s) :
                   s[i] = ":" /\ \A j \in (i + 1) .. Len(s) : s[j] # ":"
PortSegment(s) == SubSeq(s, LastColon(s) + 1, Len(s))

IsDecimal(seg) == seg # << >> /\ \A i \in 1 .. Len(seg) : seg[i] \in DOMAIN DigitVal

WellFormedHostPort(s) == HasColon(s) /\ IsDecimal(PortSegment(s))

\* the value of a string of decimal digits, least significant digit first
RECURSIVE DecimalValue(_)
DecimalValue(seg) ==
    IF seg = << >> THEN 0
    ELSE DigitVal[seg[Len(seg)]] + 10 * DecimalValue(SubSeq(seg, 1, Len(seg) - 1))

\* byte-for-byte equality of two slices
SameBytes(a, b) ==
    /\ Len(a.data) = Len(b.data)
    /\ \A i \in 1 .. Len(a.data) : a.data[i] = b.data[i]

Failed(name) == \E i \in 1 .. Len(trace) : trace[i].call = name /\ ~trace[i].ok
Called(name) == \E i \in 1 .. Len(trace) : trace[i].call = name
NothingBuilt == gossipInst = NoValue /\ ret = NoValue

VerifyFrames == { c \in Callers : frames[c].pc = "returned" /\ frames[c].op = "Verify" }
SignFrames   == { c \in Callers : frames[c].pc = "returned" /\ frames[c].op = "Sign" }

----------------------------------------------------------------------------
(* Properties of NewGossipComponent (checked under Spec) *)

\* C1: NewGossipComponent is all-or-nothing.  Once the call is past
\* newConfig with an endpoint that has no ':' or whose segment after the
\* first ':' is not an integer, or once strconv.ParseInt or
\* comm.NewCommInstance has returned an error, the call has panicked; and in
\* a panicked call no gossip service was built and nothing was returned.
C1_AllOrNothing ==
    /\ (pc # "newConfig" /\ ~HasColon(endpoint)) => pc = "panicked"
    /\ (pc # "newConfig" /\ HasColon(endpoint)
          /\ ~ParseInt(Split(endpoint)[2]).err.isNil) => pc = "panicked"
    /\ (Failed("strconv.ParseInt") \/ Failed("comm.NewCommInstance"))
          => pc = "panicked"
    /\ pc = "panicked" => (NothingBuilt /\ ~Called("gossip.NewGossipService"))

\* C1 witness: comm.NewCommInstance failed after a good parse and the call
\* panicked with that error.
C1_Witness ==
    /\ pc = "panicked"
    /\ conf # NoValue
    /\ Failed("comm.NewCommInstance")
    /\ panicVal = ErrComm

\* C2: for every well-formed host:port endpoint (a port of decimal digits
\* after the last ':'), once newConfig is done a config exists whose
\* BindPort is the integer value of that port segment, whatever the host.
C2_BindPortIsPortSegment ==
    (pc # "newConfig" /\ WellFormedHostPort(endpoint))
        => (conf # NoValue /\ conf.BindPort = DecimalValue(PortSegment(endpoint)))

\* C5 as stated: in a successful call the provider handed to
\* comm.NewCommInstance reports IsEnabled() = TRUE.
C5_CommProviderEnabled ==
    pc = "returned" =>
        Invoke(commInst.secProvider.variant, "IsEnabled", EmptyStruct, << >>).ret = TRUE

\* C5 amended: in a successful call the provider handed to
\* comm.NewCommInstance is the one NewGossipCryptoService returns, a
\* naiveCryptoServiceImpl, whose IsEnabled() is FALSE.
C5_CommProviderDisabled ==
    pc = "returned" =>
        /\ commInst.secProvider.variant = "naiveCryptoServiceImpl"
        /\ Invoke(commInst.secProvider.variant, "IsEnabled", EmptyStruct, << >>).ret = FALSE

\* C5 witness: a call has returned with a communication handle.
C5_Witness ==
    /\ pc = "returned"
    /\ ret.comm = commInst
    /\ commInst.secProvider \in { allocs[i] : i \in 1 .. Len(allocs) }

\* C6 as stated: the provider of the communication layer and the providers
\* of the gossip service are one and the same instance.
C6_OneSharedProvider ==
    pc = "returned" =>
        /\ gossipInst.provider1 = commInst.secProvider
        /\ gossipInst.provider2 = commInst.secProvider

\* C6 amended: a successful call constructs three providers, in this order:
\* a naiveCryptoServiceImpl for the communication layer, then a
\* naiveCryptoService and another naiveCryptoServiceImpl for the gossip
\* service; the comm provider and the first gossip provider are of different
\* types, hence never the same instance.
C6_ThreeProviders ==
    pc = "returned" =>
        /\ Len(allocs) = 3
        /\ commInst.secProvider = allocs[1]
        /\ gossipInst.provider1 = allocs[2]
        /\ gossipInst.provider2 = allocs[3]
        /\ allocs[1].variant = "naiveCryptoServiceImpl"
        /\ allocs[2].variant = "naiveCryptoService"
        /\ allocs[3].variant = "naiveCryptoServiceImpl"
        /\ gossipInst.provider1 # commInst.secProvider

\* C6 witness: a call has returned, and the two naiveCryptoServiceImpl
\* pointers got different addresses.
C6_Witness ==
    /\ pc = "returned"
    /\ gossipInst.comm = commInst
    /\ gossipInst.provider2.addr # commInst.secProvider.addr

\* C7: the peer list is never validated.  Whenever a config exists its
\* BootstrapPeers is the supplied list, element by element in the same
\* order; and a call panics only with the error of the endpoint parse or of
\* comm.NewCommInstance, neither of which looks at the peer list.
C7_PeersPassedThrough ==
    /\ conf # NoValue =>
          /\ Len(conf.BootstrapPeers) = Len(bootPeers)
          /\ \A i \in 1 .. Len(bootPeers) : conf.BootstrapPeers[i] = bootPeers[i]
    /\ (pc # "newConfig" /\ parsePort(endpoint).err.isNil) => conf # NoValue
    /\ pc = "panicked" =>
          \/ (conf = NoValue /\ panicVal = parsePort(endpoint).err)
          \/ (conf # NoValue /\ panicVal = ErrComm)

\* C7 witness: a call returned although its peer list holds a malformed
\* entry next to a well-formed one.
C7_Witness ==
    /\ pc = "returned"
    /\ Len(bootPeers) = 2
    /\ ~HasColon(bootPeers[1])
    /\ HasColon(bootPeers[2])
    /\ ret.gossip.conf.BootstrapPeers = bootPeers

\* C9: the steps of a call happen once each and in order: the calls made
\* are a prefix of ParseInt, NewCommInstance, NewGossipService, each made
\* only after the previous one succeeded; the server is handed on only after
\* a successful parse.
C9_StepOrder ==
    /\ Len(trace) <= 3
    /\ \A i \in 1 .. Len(trace) :
          /\ trace[i].call = << "strconv.ParseInt", "comm.NewCommInstance",
                                "gossip.NewGossipService" >>[i]
          /\ \A j \in 1 .. (i - 1) : trace[j].ok
    /\ serverTouched =>
          (Len(trace) >= 2 /\ trace[1].ok /\ parsePort(endpoint).err.isNil)
    /\ (pc # "newConfig" /\ ~parsePort(endpoint).err.isNil) =>
          (~serverTouched /\ ~Called("comm.NewCommInstance") /\ allocs = << >>)

\* C9 witness: a parse failed and the call stopped there, server untouched.
C9_Witness ==
    /\ pc = "panicked"
    /\ Failed("strconv.ParseInt")
    /\ Len(trace) = 1
    /\ ~serverTouched

----------------------------------------------------------------------------
(* Properties of the crypto services (checked under SpecCrypto) *)

\* C3: in both services and for every identity, Verify succeeds exactly
\* when signature and message are byte-for-byte equal; two Verify calls on
\* the same signature and message decide alike, whatever the service and
\* the identity.
C3_VerifyIffEqual ==
    /\ \A c \in VerifyFrames :
          frames[c].ret.isNil <=> SameBytes(frames[c].args[2], frames[c].args[3])
    /\ \A c, d \in VerifyFrames :
          (frames[c].args[2] = frames[d].args[2] /\ frames[c].args[3] = frames[d].args[3])
              => frames[c].ret.isNil = frames[d].ret.isNil

\* C3 witness: one caller's Verify failed on equally long but different
\* slices in naiveCryptoServiceImpl, under a non-nil identity.
C3_Witness ==
    \E c \in VerifyFrames :
        /\ ~frames[c].ret.isNil
        /\ Len(frames[c].args[2].data) = Len(frames[c].args[3].data)
        /\ frames[c].recv = "naiveCryptoServiceImpl"
        /\ ~frames[c].args[1].isNil

\* C4: whenever Verify fails, in either service, the error carries both the
\* signature and the message that were compared.
C4_ErrorCarriesOperands ==
    \A c \in VerifyFrames :
        ~frames[c].ret.isNil =>
            frames[c].ret.args = << frames[c].args[2].data, frames[c].args[3].data >>

\* C8: in both services Sign returns a slice equal to the message and a nil
\* error, and verifying a signature obtained from Sign against the signed
\* message succeeds, whichever service signed and whichever verifies.
C8_SignRoundTrip ==
    /\ \A c \in SignFrames :
          /\ frames[c].ret[2].isNil
          /\ SameBytes(frames[c].ret[1], frames[c].args[1])
    /\ \A c \in VerifyFrames :
          frames[c].from # "" => frames[c].ret.isNil

\* C8 witness: a non-empty message signed by naiveCryptoService was
\* verified by naiveCryptoServiceImpl under a non-nil identity.
C8_Witness ==
    \E c \in VerifyFrames :
        /\ frames[c].from = "naiveCryptoService"
        /\ frames[c].recv = "naiveCryptoServiceImpl"
        /\ frames[c].args[3].data # << >>
        /\ ~frames[c].args[1].isNil

\* C10: the methods are stateless.  No call changes the struct behind a
\* service, and whatever the other callers have done, the result a caller
\* holds is the one the same call yields on a freshly constructed service.
C10_Stateless ==
    /\ heap = InitHeap
    /\ \A c \in Callers :
          frames[c].pc = "returned" =>
              frames[c].ret =
                  Invoke(frames[c].recv, frames[c].op, EmptyStruct, frames[c].args).ret

\* C10 witness: two callers hold results of Sign on different messages
\* from the same service at the same time.
C10_Witness ==
    \E c, d \in SignFrames :
        /\ c # d
        /\ frames[c].recv = frames[d].recv
        /\ frames[c].args[1].data # frames[d].args[1].data

====
